---- MODULE Spec2Model ----
(***************************************************************************)
(* Model of the Socket.IO quiz relay in src/server.js: the two process-wide *)
(* maps (roomParticipants, quizSessions), the transport-level room          *)
(* membership of each socket (socket.rooms), and one action per event       *)
(* handler registered in io.on('connection').                               *)
(*                                                                          *)
(* Node runs each handler to completion on one thread, so every handler is  *)
(* one atomic action.  `new Date()` reads the clock `now`; the session      *)
(* keeps it as startedAt.  The other time stamps (joinedAt, timestamp,      *)
(* endedAt) are written into payloads, never read by a handler and never    *)
(* updated; they are left out of the records below.                         *)
(***************************************************************************)
EXTENDS Integers, Sequences, FiniteSets, TLC

(* ------------------------------ bounds --------------------------------- *)
NumSockets == 2
NumRooms == 2
MaxQuestion == 1
MaxClock == 1

SocketNames == <<"C1", "C2", "C3", "C4">>
RoomNames == <<"R1", "R2", "R3", "R4">>
UserNames == <<"u1", "u2", "u3", "u4">>
DefaultUserNames == <<"User u1", "User u2", "User u3", "User u4">>

Sockets == {SocketNames[i] : i \in 1..NumSockets}
Rooms == {RoomNames[i] : i \in 1..NumRooms}

(* A field that the client left out of the payload (JS undefined). *)
Undefined == "undefined"
(* An event sent with no payload object at all: destructuring it throws. *)
NoData == [absent |-> TRUE]
IsAbsent(data) == "absent" \in DOMAIN data
(* JS truthiness of a string-or-undefined field: !x *)
Falsy(x) == x = Undefined

(* ----------------------------- inputs ---------------------------------- *)
(* The client behind socket Ci is user ui; odd-numbered clients send no    *)
(* userName, even-numbered ones send one.                                  *)
SocketIndex(s) == CHOOSE i \in 1..Len(SocketNames) : SocketNames[i] = s
UserOf(s) == UserNames[SocketIndex(s)]
NameOf(s) == IF SocketIndex(s) % 2 = 1 THEN Undefined ELSE "Ann"

JoinData(s) == [roomId : Rooms \cup {Undefined},
                userId : {UserOf(s), Undefined},
                userName : {NameOf(s)}]
(* quizData left out of the payload: spreading undefined adds no field. *)
UndefinedObject == [undefined |-> TRUE]
(* The last payload carries fields of its own under the names the handler sets. *)
QuizPayloads == {UndefinedObject, [title |-> "T"],
                 [title |-> "T", currentQuestion |-> 7, startedAt |-> 9]}
StartData == [roomId : Rooms \cup {Undefined}, quizData : QuizPayloads]
AnswerData(s) == [roomId : Rooms, questionId : {1}, answer : {"a"}, userId : {UserOf(s)}]
NextData == [roomId : Rooms, questionIndex : 0..MaxQuestion]
EndData == [roomId : Rooms, results : {"res"}]

(* --------------------------- JS Map ------------------------------------ *)
(* A Map is kept as the sequence of its entries in insertion order.        *)
MapHas(m, k) == \E i \in 1..Len(m) : m[i].key = k
MapGet(m, k) == m[CHOOSE i \in 1..Len(m) : m[i].key = k].val
MapSet(m, k, v) ==
    IF MapHas(m, k)
    THEN [i \in 1..Len(m) |-> IF m[i].key = k THEN [key |-> k, val |-> v] ELSE m[i]]
    ELSE Append(m, [key |-> k, val |-> v])
MapDelete(m, k) == SelectSeq(m, LAMBDA e : e.key # k)
MapKeys(m) == [i \in 1..Len(m) |-> m[i].key]
MapValues(m) == [i \in 1..Len(m) |-> m[i].val]
MapSize(m) == Len(m)
EmptyMap == << >>

(* { ...a, ...b } : the fields of b override those of a. *)
Spread(a, b) ==
    [f \in DOMAIN a \cup DOMAIN b |-> IF f \in DOMAIN b THEN b[f] ELSE a[f]]
EmptyObject == [f \in {} |-> 0]

Range(s) == {s[i] : i \in 1..Len(s)}

(* ------------------------------ state ---------------------------------- *)
VARIABLES
    sockets,           \* socket id -> "new" | "open" | "closed"
    socketRooms,       \* socket id -> set of room names in socket.rooms (own id left out)
    roomParticipants,  \* Map roomId -> Map socketId -> participant
    quizSessions,      \* roomId -> session object, for the rooms that have one
    now,               \* the clock that new Date() reads
    outbox,            \* the emits made by the event handler that ran last, in order
    lastEvent,         \* history: which event that handler ran for, and for which socket
    trail,             \* history: how far the latest events spell start, end, next on one room
    scenario,          \* history: steps of the reference scenario run since start-up, -1 if left
    running,           \* socket id -> the handler in progress for it, statement by statement
    serial             \* history: the two maps had the dispatched events run one at a time

vars == <<sockets, socketRooms, roomParticipants, quizSessions, now, outbox, lastEvent, trail, scenario,
          running, serial>>

(* Sockets that receive io.to(room).emit(...) *)
RoomMembers(sr, room) == {s \in Sockets : room \in sr[s]}

(* socket.emit(event, payload) *)
ToSocket(s, event, payload) ==
    [to |-> s, event |-> event, payload |-> payload, rcpt |-> {s}]
(* io.to(room).emit(event, payload) *)
ToRoom(sr, room, event, payload) ==
    [to |-> room, event |-> event, payload |-> payload, rcpt |-> RoomMembers(sr, room)]
(* socket.to(room) mistaken for io.to(room): the sender is not left out. *)
ToRoomExceptNobody(sr, s, room, event, payload) ==
    [to |-> room, event |-> event, payload |-> payload, rcpt |-> RoomMembers(sr, room)]

(* socket.to(room).emit(event, payload) *)
ToRoomExcept(sr, s, room, event, payload) ==
    [to |-> room, event |-> event, payload |-> payload, rcpt |-> RoomMembers(sr, room) \ {s}]

(* --------------------------- history ----------------------------------- *)
(* An event is [op, socket, data]; disconnect carries NoData.  The history *)
(* variables only record which events were handled; no handler reads them. *)
(* A new connection is not an event of the dispatcher: it emits nothing    *)
(* and leaves outbox and the history as they are.                          *)
HasRoom(e) == ~IsAbsent(e.data) /\ ~Falsy(e.data.roomId)

TrailPattern == <<"start-quiz", "end-quiz", "next-question">>
NoTrail == [room |-> Undefined, ops |-> << >>]
TrailNext(t, e) ==
    IF HasRoom(e) /\ e.op = "start-quiz"
    THEN [room |-> e.data.roomId, ops |-> <<"start-quiz">>]
    ELSE IF /\ HasRoom(e)
            /\ Len(t.ops) \in 1..(Len(TrailPattern) - 1)
            /\ e.op = TrailPattern[Len(t.ops) + 1]
            /\ e.data.roomId = t.room
    THEN [t EXCEPT !.ops = Append(@, e.op)]
    ELSE NoTrail

(* Spec section 8, "Concrete scenario". *)
ScenarioSteps ==
    <<[op |-> "join-room", socket |-> "C1", roomId |-> "R1", userId |-> "u1"],
      [op |-> "join-room", socket |-> "C2", roomId |-> "R1", userId |-> "u2"],
      [op |-> "start-quiz", socket |-> "C1", roomId |-> "R1", quizData |-> [title |-> "T"]],
      [op |-> "disconnect", socket |-> "C1"],
      [op |-> "disconnect", socket |-> "C2"]>>
MatchesStep(k, e) ==
    LET step == ScenarioSteps[k]
    IN  /\ e.op = step.op
        /\ e.socket = step.socket
        /\ e.op = "join-room" =>
              ~IsAbsent(e.data) /\ e.data.roomId = step.roomId /\ e.data.userId = step.userId
        /\ e.op = "start-quiz" =>
              ~IsAbsent(e.data) /\ e.data.roomId = step.roomId /\ e.data.quizData = step.quizData
ScenarioNext(k, e) ==
    IF k >= 0 /\ k < Len(ScenarioSteps) /\ MatchesStep(k + 1, e) THEN k + 1
    ELSE -1

Observe(e) ==
    /\ lastEvent' = [op |-> e.op, socket |-> e.socket]
    /\ trail' = TrailNext(trail, e)
    /\ scenario' = ScenarioNext(scenario, e)

(* No handler in progress for a socket. *)
Idle == [op |-> "idle"]

Init ==
    /\ running = [s \in Sockets |-> Idle]
    /\ serial = [rp |-> EmptyMap, qs |-> [r \in {} |-> EmptyObject]]
    /\ lastEvent = [op |-> "none", socket |-> Undefined]
    /\ trail = NoTrail
    /\ scenario = 0
    /\ sockets = [s \in Sockets |-> "new"]
    /\ socketRooms = [s \in Sockets |-> {}]
    /\ roomParticipants = EmptyMap
    /\ quizSessions = [r \in {} |-> EmptyObject]
    /\ now = 0
    /\ outbox = << >>

(* io.on('connection', socket => ...) : a new socket with a fresh id; the  *)
(* callback logs and registers the handlers below.                         *)
Connect(s) ==
    /\ sockets[s] = "new"
    /\ sockets' = [sockets EXCEPT ![s] = "open"]
    /\ UNCHANGED <<socketRooms, roomParticipants, quizSessions, now, outbox, lastEvent, trail, scenario>>
    /\ UNCHANGED <<running, serial>>

(* ---------------------------- join-room -------------------------------- *)
DefaultName(userId) == DefaultUserNames[CHOOSE i \in 1..Len(UserNames) : UserNames[i] = userId]

Participant(s, data) ==
    [userId |-> data.userId,
     userName |-> IF Falsy(data.userName) THEN DefaultName(data.userId) ELSE data.userName,
     socketId |-> s]

JoinRoomInvalid(data) == Falsy(data.roomId) \/ Falsy(data.userId)

(* roomParticipants after lines 73-83 *)
JoinRegistry(rp, s, data) ==
    LET withRoom == IF MapHas(rp, data.roomId) THEN rp ELSE MapSet(rp, data.roomId, EmptyMap)
    IN  MapSet(withRoom, data.roomId,
               MapSet(MapGet(withRoom, data.roomId), s, Participant(s, data)))

(* JoinRoomOn with the leave loop of lines 63-68 run before the validation. *)
JoinRoomOnLeavesFirst(s, data) ==
    /\ sockets[s] = "open"
    /\ Observe([op |-> "join-room", socket |-> s, data |-> data])
    /\ IF IsAbsent(data)
       THEN /\ outbox' = <<ToSocket(s, "error", [message |-> "Failed to join room"])>>
            /\ UNCHANGED <<socketRooms, roomParticipants, quizSessions>>
       ELSE IF JoinRoomInvalid(data)
       THEN /\ outbox' = <<ToSocket(s, "error", [message |-> "Room ID and User ID are required"])>>
            /\ socketRooms' = [socketRooms EXCEPT ![s] = {}]
            /\ UNCHANGED <<roomParticipants, quizSessions>>
       ELSE LET sr == [socketRooms EXCEPT ![s] = {data.roomId}]
                rp == JoinRegistry(roomParticipants, s, data)
                participants == MapValues(MapGet(rp, data.roomId))
            IN  /\ socketRooms' = sr
                /\ roomParticipants' = rp
                /\ outbox' = <<ToRoom(sr, data.roomId, "participants-update",
                                      [participants |-> participants,
                                       count |-> Len(participants)]),
                               ToSocket(s, "room-joined",
                                      [roomId |-> data.roomId,
                                       participantCount |-> Len(participants),
                                       participants |-> participants])>>
                /\ UNCHANGED quizSessions
    /\ UNCHANGED <<sockets, now, running, serial>>

(* JoinRoomOn with the broadcast of lines 91-94 made before socket.join of line 71. *)
JoinRoomOnEmitsBeforeJoin(s, data) ==
    /\ sockets[s] = "open"
    /\ Observe([op |-> "join-room", socket |-> s, data |-> data])
    /\ IF IsAbsent(data)
       THEN /\ outbox' = <<ToSocket(s, "error", [message |-> "Failed to join room"])>>
            /\ UNCHANGED <<socketRooms, roomParticipants, quizSessions>>
       ELSE IF JoinRoomInvalid(data)
       THEN /\ outbox' = <<ToSocket(s, "error", [message |-> "Room ID and User ID are required"])>>
            /\ UNCHANGED <<socketRooms, roomParticipants, quizSessions>>
       ELSE LET sr == [socketRooms EXCEPT ![s] = {data.roomId}]
                rp == JoinRegistry(roomParticipants, s, data)
                participants == MapValues(MapGet(rp, data.roomId))
            IN  /\ socketRooms' = sr
                /\ roomParticipants' = rp
                /\ outbox' = <<ToRoom([socketRooms EXCEPT ![s] = {}], data.roomId,
                                      "participants-update",
                                      [participants |-> participants,
                                       count |-> Len(participants)]),
                               ToSocket(s, "room-joined",
                                      [roomId |-> data.roomId,
                                       participantCount |-> Len(participants),
                                       participants |-> participants])>>
                /\ UNCHANGED quizSessions
    /\ UNCHANGED <<sockets, now, running, serial>>

JoinRoomOn(s, data) ==
    /\ sockets[s] = "open"
    /\ Observe([op |-> "join-room", socket |-> s, data |-> data])
    /\ IF IsAbsent(data)
       THEN /\ outbox' = <<ToSocket(s, "error", [message |-> "Failed to join room"])>>
            /\ UNCHANGED <<socketRooms, roomParticipants, quizSessions>>
       ELSE IF JoinRoomInvalid(data)
       THEN /\ outbox' = <<ToSocket(s, "error", [message |-> "Room ID and User ID are required"])>>
            /\ UNCHANGED <<socketRooms, roomParticipants, quizSessions>>
       ELSE LET sr == [socketRooms EXCEPT ![s] = {data.roomId}]
                rp == JoinRegistry(roomParticipants, s, data)
                participants == MapValues(MapGet(rp, data.roomId))
            IN  /\ socketRooms' = sr
                /\ roomParticipants' = rp
                /\ outbox' = <<ToRoom(sr, data.roomId, "participants-update",
                                      [participants |-> participants,
                                       count |-> Len(participants)]),
                               ToSocket(s, "room-joined",
                                      [roomId |-> data.roomId,
                                       participantCount |-> Len(participants),
                                       participants |-> participants])>>
                /\ UNCHANGED quizSessions
    /\ UNCHANGED <<sockets, now, running, serial>>

ValidJoin(data) == ~IsAbsent(data) /\ ~JoinRoomInvalid(data)
ValidJoins(s) == {data \in JoinData(s) : ValidJoin(data)}

JoinRoom(s) == \E data \in JoinData(s) \cup {NoData} : JoinRoomOn(s, data)

(* ---------------------------- start-quiz ------------------------------- *)
SessionSet(qs, roomId, session) ==
    [r \in DOMAIN qs \cup {roomId} |-> IF r = roomId THEN session ELSE qs[r]]
(* quizSessions.clear() in place of quizSessions.delete(roomId). *)
SessionDeleteAll(qs, roomId) == [r \in {} |-> EmptyObject]

SessionDelete(qs, roomId) == [r \in DOMAIN qs \ {roomId} |-> qs[r]]

(* NewSession with the payload spread last: { startedAt, currentQuestion, ...quizData } *)
NewSessionPayloadLast(quizData, date) ==
    Spread([startedAt |-> date, currentQuestion |-> 0],
           IF quizData = UndefinedObject THEN EmptyObject ELSE quizData)

(* { ...quizData, startedAt: new Date(), currentQuestion: 0 } *)
NewSession(quizData, date) ==
    Spread(IF quizData = UndefinedObject THEN EmptyObject ELSE quizData,
           [startedAt |-> date, currentQuestion |-> 0])

StartQuizOn(s, data) ==
    /\ sockets[s] = "open"
    /\ Observe([op |-> "start-quiz", socket |-> s, data |-> data])
    /\ IF IsAbsent(data)
       THEN /\ outbox' = <<ToSocket(s, "error", [message |-> "Failed to start quiz"])>>
            /\ UNCHANGED quizSessions
       ELSE IF Falsy(data.roomId)
       THEN /\ outbox' = <<ToSocket(s, "error", [message |-> "Room ID is required"])>>
            /\ UNCHANGED quizSessions
       ELSE LET qs == SessionSet(quizSessions, data.roomId, NewSession(data.quizData, now))
            IN  /\ quizSessions' = qs
                /\ outbox' = <<ToRoom(socketRooms, data.roomId, "quiz-started",
                                      [roomId |-> data.roomId, quiz |-> qs[data.roomId]])>>
    /\ UNCHANGED <<sockets, socketRooms, roomParticipants, now, running, serial>>

StartQuiz(s) == \E data \in StartData \cup {NoData} : StartQuizOn(s, data)

(* --------------------------- submit-answer ----------------------------- *)
SubmitAnswerOn(s, data) ==
    /\ sockets[s] = "open"
    /\ Observe([op |-> "submit-answer", socket |-> s, data |-> data])
    /\ IF IsAbsent(data)
       THEN outbox' = <<ToSocket(s, "error", [message |-> "Failed to submit answer"])>>
       ELSE outbox' = <<ToRoomExcept(socketRooms, s, data.roomId, "answer-received",
                                     [userId |-> data.userId,
                                      questionId |-> data.questionId,
                                      answer |-> data.answer])>>
    /\ UNCHANGED <<sockets, socketRooms, roomParticipants, quizSessions, now, running, serial>>

SubmitAnswer(s) == \E data \in AnswerData(s) \cup {NoData} : SubmitAnswerOn(s, data)

(* --------------------------- next-question ----------------------------- *)
(* AdvanceSession that creates the session it does not find. *)
AdvanceSessionUpsert(qs, roomId, questionIndex) ==
    SessionSet(qs, roomId,
               Spread(IF roomId \in DOMAIN qs THEN qs[roomId] ELSE EmptyObject,
                      [currentQuestion |-> questionIndex]))

(* AdvanceSession that stores a fresh object instead of updating the session. *)
AdvanceSessionReplace(qs, roomId, questionIndex) ==
    IF roomId \in DOMAIN qs
    THEN SessionSet(qs, roomId, [currentQuestion |-> questionIndex])
    ELSE qs

AdvanceSession(qs, roomId, questionIndex) ==
    IF roomId \in DOMAIN qs
    THEN SessionSet(qs, roomId, Spread(qs[roomId], [currentQuestion |-> questionIndex]))
    ELSE qs

NextQuestionOn(s, data) ==
    /\ sockets[s] = "open"
    /\ Observe([op |-> "next-question", socket |-> s, data |-> data])
    /\ IF IsAbsent(data)
       THEN /\ outbox' = <<ToSocket(s, "error", [message |-> "Failed to change question"])>>
            /\ UNCHANGED quizSessions
       ELSE /\ quizSessions' = AdvanceSession(quizSessions, data.roomId, data.questionIndex)
            /\ outbox' = <<ToRoom(socketRooms, data.roomId, "question-changed",
                                  [roomId |-> data.roomId,
                                   questionIndex |-> data.questionIndex])>>
    /\ UNCHANGED <<sockets, socketRooms, roomParticipants, now, running, serial>>

NextQuestion(s) == \E data \in NextData \cup {NoData} : NextQuestionOn(s, data)

(* ----------------------------- end-quiz -------------------------------- *)
EndQuizOn(s, data) ==
    /\ sockets[s] = "open"
    /\ Observe([op |-> "end-quiz", socket |-> s, data |-> data])
    /\ IF IsAbsent(data)
       THEN /\ outbox' = <<ToSocket(s, "error", [message |-> "Failed to end quiz"])>>
            /\ UNCHANGED quizSessions
       ELSE /\ outbox' = <<ToRoom(socketRooms, data.roomId, "quiz-ended",
                                  [roomId |-> data.roomId, results |-> data.results])>>
            /\ quizSessions' = SessionDelete(quizSessions, data.roomId)
    /\ UNCHANGED <<sockets, socketRooms, roomParticipants, now, running, serial>>

EndQuiz(s) == \E data \in EndData \cup {NoData} : EndQuizOn(s, data)

(* ---------------------------- disconnect ------------------------------- *)
(* DisconnectRoom without the clean-up of lines 226-230. *)
DisconnectRoomKeepsEmpty(acc, sr, s, roomId) ==
    LET participants == MapGet(acc.rp, roomId)
    IN  IF ~MapHas(participants, s)
        THEN acc
        ELSE LET remaining == MapDelete(participants, s)
                 updatedParticipants == MapValues(remaining)
                 emit == ToRoom(sr, roomId, "participants-update",
                                [participants |-> updatedParticipants,
                                 count |-> Len(updatedParticipants)])
             IN  [rp |-> MapSet(acc.rp, roomId, remaining),
                  qs |-> acc.qs,
                  out |-> Append(acc.out, emit)]

(* DisconnectRoom without the membership test of line 214. *)
DisconnectRoomNoCheck(acc, sr, s, roomId) ==
    LET remaining == MapDelete(MapGet(acc.rp, roomId), s)
        updatedParticipants == MapValues(remaining)
        emit == ToRoom(sr, roomId, "participants-update",
                       [participants |-> updatedParticipants,
                        count |-> Len(updatedParticipants)])
        empty == MapSize(remaining) = 0
    IN  [rp |-> IF empty THEN MapDelete(acc.rp, roomId)
                ELSE MapSet(acc.rp, roomId, remaining),
         qs |-> IF empty THEN SessionDelete(acc.qs, roomId) ELSE acc.qs,
         out |-> Append(acc.out, emit)]

(* The body of roomParticipants.forEach for one room; acc holds the two    *)
(* maps and the emits made so far, sr the transport membership at the time  *)
(* the handler runs.                                                        *)
DisconnectRoom(acc, sr, s, roomId) ==
    LET participants == MapGet(acc.rp, roomId)
    IN  IF ~MapHas(participants, s)
        THEN acc
        ELSE LET remaining == MapDelete(participants, s)
                 updatedParticipants == MapValues(remaining)
                 emit == ToRoom(sr, roomId, "participants-update",
                                [participants |-> updatedParticipants,
                                 count |-> Len(updatedParticipants)])
                 empty == MapSize(remaining) = 0
             IN  [rp |-> IF empty THEN MapDelete(acc.rp, roomId)
                         ELSE MapSet(acc.rp, roomId, remaining),
                  qs |-> IF empty THEN SessionDelete(acc.qs, roomId) ELSE acc.qs,
                  out |-> Append(acc.out, emit)]

(* A loop that stops at the first room it finds the socket in. *)
RECURSIVE DisconnectLoopFirstOnly(_, _, _, _)
DisconnectLoopFirstOnly(acc, sr, s, keys) ==
    IF keys = << >> THEN acc
    ELSE IF MapHas(MapGet(acc.rp, Head(keys)), s)
    THEN DisconnectRoom(acc, sr, s, Head(keys))
    ELSE DisconnectLoopFirstOnly(acc, sr, s, Tail(keys))

RECURSIVE DisconnectLoop(_, _, _, _)
DisconnectLoop(acc, sr, s, keys) ==
    IF keys = << >> THEN acc
    ELSE DisconnectLoop(DisconnectRoom(acc, sr, s, Head(keys)), sr, s, Tail(keys))

(* The handler's result on registry rp and session store qs. *)
DisconnectResult(rp, qs, sr, s) ==
    DisconnectLoop([rp |-> rp, qs |-> qs, out |-> << >>], sr, s, MapKeys(rp))

(* Socket.IO empties socket.rooms before it emits 'disconnect'. *)
Disconnect(s) ==
    /\ sockets[s] = "open"
    /\ sockets' = [sockets EXCEPT ![s] = "closed"]
    /\ Observe([op |-> "disconnect", socket |-> s, data |-> NoData])
    /\ LET sr == [socketRooms EXCEPT ![s] = {}]
           res == DisconnectResult(roomParticipants, quizSessions, sr, s)
       IN  /\ socketRooms' = sr
           /\ roomParticipants' = res.rp
           /\ quizSessions' = res.qs
           /\ outbox' = res.out
    /\ UNCHANGED <<now, running, serial>>

(* Time passes between two events. *)
Tick ==
    /\ now < MaxClock
    /\ now' = now + 1
    /\ UNCHANGED <<sockets, socketRooms, roomParticipants, quizSessions, outbox,
                   lastEvent, trail, scenario, running, serial>>

Next ==
    \/ \E s \in Sockets : Connect(s)
    \/ \E s \in Sockets : JoinRoom(s)
    \/ \E s \in Sockets : StartQuiz(s)
    \/ \E s \in Sockets : SubmitAnswer(s)
    \/ \E s \in Sockets : NextQuestion(s)
    \/ \E s \in Sockets : EndQuiz(s)
    \/ \E s \in Sockets : Disconnect(s)

(* All events arrive within one reading of the clock; each handler is one step. *)
Spec == Init /\ [][Next]_vars

(* The clock runs; the clients send well-formed events, every start with   *)
(* its quizData.                                                           *)
TimedStartData == {data \in StartData : data.quizData # UndefinedObject}
TimedNext ==
    \/ Tick
    \/ \E s \in Sockets : Connect(s)
    \/ \E s \in Sockets : \E data \in ValidJoins(s) : JoinRoomOn(s, data)
    \/ \E s \in Sockets : \E data \in TimedStartData : StartQuizOn(s, data)
    \/ \E s \in Sockets : \E data \in NextData : NextQuestionOn(s, data)
    \/ \E s \in Sockets : \E data \in EndData : EndQuizOn(s, data)
    \/ \E s \in Sockets : Disconnect(s)

TimedSpec == Init /\ [][TimedNext]_vars

(* ------------------- the handlers, statement by statement --------------- *)
(* The same handlers with one step per access to socket.rooms, to a map or  *)
(* to the transport.  running[s] is the frame of the handler in progress    *)
(* for socket s: the event, the next statement (pc) and the handler's       *)
(* locals.  Emits are appended to outbox, which is cleared when a handler   *)
(* is entered.  The handlers are plain synchronous functions: the event     *)
(* loop enters one only when no other is in progress.                       *)
StepEvents(s) ==
    [op : {"join-room"}, data : JoinData(s)]
    \cup [op : {"start-quiz"}, data : TimedStartData]
    \cup [op : {"next-question"}, data : NextData]
    \cup [op : {"end-quiz"}, data : EndData]
    \cup [op : {"disconnect"}, data : {NoData}]

FirstStatement(op) ==
    CASE op = "join-room" -> "enter"
      [] op = "start-quiz" -> "store"
      [] op = "next-question" -> "store"
      [] op = "end-quiz" -> "emit"
      [] op = "disconnect" -> "visit"

Frame(ev, rp) ==
    [op |-> ev.op, data |-> ev.data, pc |-> FirstStatement(ev.op),
     participants |-> << >>,
     keys |-> IF ev.op = "disconnect" THEN MapKeys(rp) ELSE << >>]

(* The two maps after the whole handler for ev has run on ser. *)
ApplySerial(ser, sr, s, ev) ==
    CASE ev.op = "join-room" ->
           IF JoinRoomInvalid(ev.data) THEN ser
           ELSE [ser EXCEPT !.rp = JoinRegistry(ser.rp, s, ev.data)]
      [] ev.op = "start-quiz" ->
           IF Falsy(ev.data.roomId) THEN ser
           ELSE [ser EXCEPT !.qs = SessionSet(ser.qs, ev.data.roomId,
                                              NewSession(ev.data.quizData, now))]
      [] ev.op = "next-question" ->
           [ser EXCEPT !.qs = AdvanceSession(ser.qs, ev.data.roomId, ev.data.questionIndex)]
      [] ev.op = "end-quiz" ->
           [ser EXCEPT !.qs = SessionDelete(ser.qs, ev.data.roomId)]
      [] ev.op = "disconnect" ->
           LET res == DisconnectResult(ser.rp, ser.qs, sr, s)
           IN  [rp |-> res.rp, qs |-> res.qs]

(* A handler that awaits between its statements lets the next event in. *)
CanDispatchWhileOthersRun(s) == running[s] = Idle

(* No handler has an await: a handler runs to its end before the next begins. *)
CanDispatch(s) == \A t \in Sockets : running[t] = Idle

Return(s) == running' = [running EXCEPT ![s] = Idle]
Goto(s, pc) == running' = [running EXCEPT ![s].pc = pc]
At(s, op, pc) == running[s].op = op /\ running[s].pc = pc

(* The event loop takes the next event that arrived and enters its handler. *)
Dispatch(s, ev) ==
    /\ CanDispatch(s)
    /\ sockets[s] = "open"
    /\ running' = [running EXCEPT ![s] = Frame(ev, roomParticipants)]
    /\ serial' = ApplySerial(serial, [socketRooms EXCEPT ![s] = {}], s, ev)
    /\ outbox' = << >>
    /\ IF ev.op = "disconnect"
       THEN /\ sockets' = [sockets EXCEPT ![s] = "closed"]
            /\ socketRooms' = [socketRooms EXCEPT ![s] = {}]
       ELSE UNCHANGED <<sockets, socketRooms>>
    /\ UNCHANGED <<roomParticipants, quizSessions, now, lastEvent, trail, scenario>>

StepConnect(s) ==
    /\ CanDispatch(s)
    /\ Connect(s)

(* lines 56-71 *)
StepJoinEnter(s) ==
    /\ At(s, "join-room", "enter")
    /\ LET data == running[s].data
       IN  IF JoinRoomInvalid(data)
           THEN /\ outbox' = Append(outbox, ToSocket(s, "error",
                                        [message |-> "Room ID and User ID are required"]))
                /\ Return(s)
                /\ UNCHANGED socketRooms
           ELSE /\ socketRooms' = [socketRooms EXCEPT ![s] = {data.roomId}]
                /\ Goto(s, "register")
                /\ UNCHANGED outbox
    /\ UNCHANGED <<sockets, roomParticipants, quizSessions, now, lastEvent, trail, scenario, serial>>

(* lines 73-83 *)
StepJoinRegister(s) ==
    /\ At(s, "join-room", "register")
    /\ roomParticipants' = JoinRegistry(roomParticipants, s, running[s].data)
    /\ Goto(s, "list")
    /\ UNCHANGED <<sockets, socketRooms, quizSessions, now, outbox, lastEvent, trail, scenario, serial>>

(* line 85; get(roomId) of a room deleted meanwhile is undefined and throws *)
StepJoinList(s) ==
    /\ At(s, "join-room", "list")
    /\ LET roomId == running[s].data.roomId
       IN  IF MapHas(roomParticipants, roomId)
           THEN /\ running' = [running EXCEPT
                                 ![s].participants = MapValues(MapGet(roomParticipants, roomId)),
                                 ![s].pc = "emit"]
                /\ UNCHANGED outbox
           ELSE /\ outbox' = Append(outbox, ToSocket(s, "error",
                                        [message |-> "Failed to join room"]))
                /\ Return(s)
    /\ UNCHANGED <<sockets, socketRooms, roomParticipants, quizSessions, now,
                   lastEvent, trail, scenario, serial>>

(* lines 91-101 *)
StepJoinEmit(s) ==
    /\ At(s, "join-room", "emit")
    /\ LET roomId == running[s].data.roomId
           participants == running[s].participants
       IN  outbox' = outbox \o
              <<ToRoom(socketRooms, roomId, "participants-update",
                       [participants |-> participants, count |-> Len(participants)]),
                ToSocket(s, "room-joined",
                       [roomId |-> roomId, participantCount |-> Len(participants),
                        participants |-> participants])>>
    /\ Return(s)
    /\ UNCHANGED <<sockets, socketRooms, roomParticipants, quizSessions, now,
                   lastEvent, trail, scenario, serial>>

(* lines 112-124 *)
StepStartStore(s) ==
    /\ At(s, "start-quiz", "store")
    /\ LET data == running[s].data
       IN  IF Falsy(data.roomId)
           THEN /\ outbox' = Append(outbox, ToSocket(s, "error",
                                        [message |-> "Room ID is required"]))
                /\ Return(s)
                /\ UNCHANGED quizSessions
           ELSE /\ quizSessions' = SessionSet(quizSessions, data.roomId,
                                              NewSession(data.quizData, now))
                /\ Goto(s, "emit")
                /\ UNCHANGED outbox
    /\ UNCHANGED <<sockets, socketRooms, roomParticipants, now, lastEvent, trail, scenario, serial>>

(* lines 129-132; the payload reads the session back from the store *)
StepStartEmit(s) ==
    /\ At(s, "start-quiz", "emit")
    /\ LET roomId == running[s].data.roomId
       IN  outbox' = Append(outbox, ToRoom(socketRooms, roomId, "quiz-started",
                        [roomId |-> roomId,
                         quiz |-> IF roomId \in DOMAIN quizSessions
                                  THEN quizSessions[roomId] ELSE UndefinedObject]))
    /\ Return(s)
    /\ UNCHANGED <<sockets, socketRooms, roomParticipants, quizSessions, now,
                   lastEvent, trail, scenario, serial>>

(* lines 164-170 *)
StepNextStore(s) ==
    /\ At(s, "next-question", "store")
    /\ quizSessions' = AdvanceSession(quizSessions, running[s].data.roomId,
                                      running[s].data.questionIndex)
    /\ Goto(s, "emit")
    /\ UNCHANGED <<sockets, socketRooms, roomParticipants, now, outbox,
                   lastEvent, trail, scenario, serial>>

(* lines 174-178 *)
StepNextEmit(s) ==
    /\ At(s, "next-question", "emit")
    /\ outbox' = Append(outbox, ToRoom(socketRooms, running[s].data.roomId, "question-changed",
                     [roomId |-> running[s].data.roomId,
                      questionIndex |-> running[s].data.questionIndex]))
    /\ Return(s)
    /\ UNCHANGED <<sockets, socketRooms, roomParticipants, quizSessions, now,
                   lastEvent, trail, scenario, serial>>

(* lines 193-197 *)
StepEndEmit(s) ==
    /\ At(s, "end-quiz", "emit")
    /\ outbox' = Append(outbox, ToRoom(socketRooms, running[s].data.roomId, "quiz-ended",
                     [roomId |-> running[s].data.roomId, results |-> running[s].data.results]))
    /\ Goto(s, "delete")
    /\ UNCHANGED <<sockets, socketRooms, roomParticipants, quizSessions, now,
                   lastEvent, trail, scenario, serial>>

(* line 200 *)
StepEndDelete(s) ==
    /\ At(s, "end-quiz", "delete")
    /\ quizSessions' = SessionDelete(quizSessions, running[s].data.roomId)
    /\ Return(s)
    /\ UNCHANGED <<sockets, socketRooms, roomParticipants, now, outbox,
                   lastEvent, trail, scenario, serial>>

(* lines 213-231: one turn of forEach, which passes over a room deleted meanwhile *)
StepDisconnectVisit(s) ==
    /\ At(s, "disconnect", "visit")
    /\ LET keys == running[s].keys
           acc == [rp |-> roomParticipants, qs |-> quizSessions, out |-> outbox]
           res == IF keys # << >> /\ MapHas(roomParticipants, Head(keys))
                  THEN DisconnectRoom(acc, socketRooms, s, Head(keys))
                  ELSE acc
       IN  /\ roomParticipants' = res.rp
           /\ quizSessions' = res.qs
           /\ outbox' = res.out
           /\ IF Len(keys) <= 1
              THEN Return(s)
              ELSE running' = [running EXCEPT ![s].keys = Tail(keys)]
    /\ UNCHANGED <<sockets, socketRooms, now, lastEvent, trail, scenario, serial>>

StepNext ==
    \/ \E s \in Sockets : StepConnect(s)
    \/ \E s \in Sockets : \E ev \in StepEvents(s) : Dispatch(s, ev)
    \/ \E s \in Sockets : StepJoinEnter(s)
    \/ \E s \in Sockets : StepJoinRegister(s)
    \/ \E s \in Sockets : StepJoinList(s)
    \/ \E s \in Sockets : StepJoinEmit(s)
    \/ \E s \in Sockets : StepStartStore(s)
    \/ \E s \in Sockets : StepStartEmit(s)
    \/ \E s \in Sockets : StepNextStore(s)
    \/ \E s \in Sockets : StepNextEmit(s)
    \/ \E s \in Sockets : StepEndEmit(s)
    \/ \E s \in Sockets : StepEndDelete(s)
    \/ \E s \in Sockets : StepDisconnectVisit(s)

StepSpec == Init /\ [][StepNext]_vars

(* ======================= properties of the relay ======================= *)
(* Socket ids listed for room r, in the order of the room's Map. *)
ParticipantIds(rp, r) == IF MapHas(rp, r) THEN MapKeys(MapGet(rp, r)) ELSE << >>
UserIds(participants) == [i \in 1..Len(participants) |-> participants[i].userId]
SocketIdsOf(participants) == [i \in 1..Len(participants) |-> participants[i].socketId]
RoomsOf(rp, s) == {r \in Rooms : s \in Range(ParticipantIds(rp, r))}
RegistryRooms(rp) == Range(MapKeys(rp))
Without(seq, s) == SelectSeq(seq, LAMBDA x : x # s)
UpdatesTo(out, r) ==
    {i \in 1..Len(out) : out[i].event = "participants-update" /\ out[i].to = r}

(* C1: single-room membership -- no socket id is in the participant map of *)
(* two different rooms; in particular a socket that joins room B while in  *)
(* room A is no longer listed in A.                                        *)
C1_SingleRoomMembership ==
    \A s \in Sockets : Cardinality(RoomsOf(roomParticipants, s)) <= 1

(* C2: the participant list of a room holds exactly the sockets that       *)
(* joined it and have not since left it (by joining another room) or       *)
(* disconnected, each once, in join order, and that is the list every      *)
(* participants-update of the room carries.  Step by step: a valid join    *)
(* appends the socket to the joined room unless it is listed already and   *)
(* removes it from every other room; a disconnect removes it everywhere;   *)
(* nothing else moves.                                                     *)
C2_JoinStep(s, data) ==
    /\ \A r \in Rooms :
         ParticipantIds(roomParticipants, r)' =
            IF r = data.roomId
            THEN IF s \in Range(ParticipantIds(roomParticipants, r))
                 THEN ParticipantIds(roomParticipants, r)
                 ELSE Append(ParticipantIds(roomParticipants, r), s)
            ELSE Without(ParticipantIds(roomParticipants, r), s)
    /\ \A i \in UpdatesTo(outbox', data.roomId) :
         SocketIdsOf(outbox'[i].payload.participants) =
            ParticipantIds(roomParticipants, data.roomId)'
C2_DisconnectStep(s) ==
    /\ \A r \in Rooms :
         ParticipantIds(roomParticipants, r)' = Without(ParticipantIds(roomParticipants, r), s)
    /\ \A r \in Rooms : \A i \in UpdatesTo(outbox', r) :
         SocketIdsOf(outbox'[i].payload.participants) = ParticipantIds(roomParticipants, r)'
C2_ParticipantListExact ==
    [][\A s \in Sockets :
         /\ \A data \in ValidJoins(s) : JoinRoomOn(s, data) => C2_JoinStep(s, data)
         /\ Disconnect(s) => C2_DisconnectStep(s)]_vars

(* C3: session implies room -- every roomId with a session in quizSessions *)
(* also has an entry in roomParticipants.                                  *)
C3_SessionImpliesRoom ==
    DOMAIN quizSessions \subseteq RegistryRooms(roomParticipants)

(* C4: no empty room -- every room in the registry has at least one        *)
(* participant; the handler that removes the last one also removes the     *)
(* room before it returns.                                                 *)
C4_NoEmptyRoom ==
    \A i \in 1..Len(roomParticipants) : MapSize(roomParticipants[i].val) >= 1
(* A disconnect has just taken the last participant out of a room. *)
C4_Witness ==
    /\ lastEvent.op = "disconnect"
    /\ \E i \in 1..Len(outbox) :
         /\ outbox[i].event = "participants-update"
         /\ outbox[i].payload.count = 0
         /\ ~MapHas(roomParticipants, outbox[i].to)

(* C5: when the last participant of a room leaves it, by a valid join to a *)
(* different room or by disconnecting, the room's registry entry and its   *)
(* session are both gone in the resulting state.                           *)
C5_RoomGone(r) ==
    /\ ~MapHas(roomParticipants', r)
    /\ r \notin DOMAIN quizSessions'
C5_LastLeaveRemovesRoom ==
    [][\A s \in Sockets : \A r \in Rooms :
         ParticipantIds(roomParticipants, r) = <<s>> =>
           /\ \A data \in ValidJoins(s) :
                (data.roomId # r /\ JoinRoomOn(s, data)) => C5_RoomGone(r)
           /\ Disconnect(s) => C5_RoomGone(r)]_vars

(* C6: a disconnect of a socket that is in no room's participant map       *)
(* leaves the registry and the session store unchanged and emits nothing;  *)
(* and the handler is idempotent: run once more for the same socket on the *)
(* state it produced, it changes nothing and emits nothing.                *)
C6_DisconnectNoop ==
    [][\A s \in Sockets : Disconnect(s) =>
         /\ RoomsOf(roomParticipants, s) = {} =>
              /\ roomParticipants' = roomParticipants
              /\ quizSessions' = quizSessions
              /\ outbox' = << >>
         /\ DisconnectResult(roomParticipants', quizSessions', socketRooms', s)
              = [rp |-> roomParticipants', qs |-> quizSessions', out |-> << >>]]_vars
(* A socket that was in no room has disconnected while rooms and sessions exist. *)
C6_Witness ==
    /\ lastEvent.op = "disconnect"
    /\ outbox = << >>
    /\ roomParticipants # EmptyMap
    /\ DOMAIN quizSessions # {}

(* C7: a start followed immediately by an end on the same room leaves no   *)
(* session for it; a nextQuestion for that room right after broadcasts     *)
(* question-changed to the room and still leaves it without a session.     *)
C7_StartEndNext ==
    /\ Len(trail.ops) >= 2 => trail.room \notin DOMAIN quizSessions
    /\ trail.ops = TrailPattern =>
         /\ Len(outbox) = 1
         /\ outbox[1].event = "question-changed"
         /\ outbox[1].to = trail.room
         /\ outbox[1].payload.roomId = trail.room
         /\ outbox[1].rcpt = RoomMembers(socketRooms, trail.room)
(* start, end, nextQuestion have just been handled for one room that has members. *)
C7_Witness ==
    /\ trail.ops = TrailPattern
    /\ lastEvent.op = "next-question"
    /\ RoomMembers(socketRooms, trail.room) # {}

(* C8: when a participant of room A makes a valid join to room B # A and A *)
(* still has other participants, a participants-update goes to A whose     *)
(* list no longer holds the switching socket and whose count is the length *)
(* of that list.                                                           *)
C8_SwitchBroadcast ==
    [][\A s \in Sockets : \A data \in ValidJoins(s) : \A a \in Rooms \ {data.roomId} :
         ( /\ s \in Range(ParticipantIds(roomParticipants, a))
           /\ Len(ParticipantIds(roomParticipants, a)) > 1
           /\ JoinRoomOn(s, data) )
         => \E i \in UpdatesTo(outbox', a) :
              /\ s \notin Range(SocketIdsOf(outbox'[i].payload.participants))
              /\ outbox'[i].payload.count = Len(outbox'[i].payload.participants)]_vars

(* C9: a join without roomId or userId, and a start without roomId, emit   *)
(* exactly one error, to the sender only, and leave the registry, the      *)
(* session store and the sender's room membership unchanged.               *)
(* (Every step of JoinRoomOn(s, _) or StartQuizOn(s, _) sets lastEvent to  *)
(* that event of s, so the tests on lastEvent' leave no such step out.)    *)
C9_OnlyError(s) ==
    /\ Len(outbox') = 1
    /\ outbox'[1].event = "error"
    /\ outbox'[1].to = s
    /\ outbox'[1].rcpt = {s}
    /\ roomParticipants' = roomParticipants
    /\ quizSessions' = quizSessions
    /\ socketRooms' = socketRooms
C9_ValidationNoEffect ==
    [][\A s \in Sockets :
         /\ lastEvent' = [op |-> "join-room", socket |-> s] =>
              \A data \in {d \in JoinData(s) : JoinRoomInvalid(d)} :
                 JoinRoomOn(s, data) => C9_OnlyError(s)
         /\ lastEvent' = [op |-> "start-quiz", socket |-> s] =>
              \A data \in {d \in StartData : Falsy(d.roomId)} :
                 StartQuizOn(s, data) => C9_OnlyError(s)]_vars
(* A member of a room with a session has just sent a join that failed validation. *)
C9_Witness ==
    /\ lastEvent.op = "join-room"
    /\ Len(outbox) = 1
    /\ outbox[1].event = "error"
    /\ outbox[1].payload.message = "Room ID and User ID are required"
    /\ socketRooms[lastEvent.socket] # {}
    /\ RoomsOf(roomParticipants, lastEvent.socket) # {}
    /\ DOMAIN quizSessions # {}

(* C10: the reference scenario, step by step: C1 joins R1 as u1 -> update  *)
(* to R1 with count 1, list [u1]; C2 joins R1 as u2 -> count 2, [u1,u2];   *)
(* C1 starts with quizData {title:"T"} -> quiz-started to R1 with title    *)
(* "T" and currentQuestion 0; C1 disconnects -> update to R1 with count 1, *)
(* [u2], session kept; C2 disconnects -> R1's registry entry and session   *)
(* are gone and nothing at all is emitted for R1.                          *)
C10_UpdateIs(m, users) ==
    /\ m.event = "participants-update"
    /\ m.to = "R1"
    /\ m.payload.count = Len(users)
    /\ UserIds(m.payload.participants) = users
C10_ScenarioTrace ==
    /\ scenario = 1 => Len(outbox) >= 1 /\ C10_UpdateIs(outbox[1], <<"u1">>)
    /\ scenario = 2 => Len(outbox) >= 1 /\ C10_UpdateIs(outbox[1], <<"u1", "u2">>)
    /\ scenario = 3 =>
         /\ Len(outbox) = 1
         /\ outbox[1].event = "quiz-started"
         /\ outbox[1].to = "R1"
         /\ outbox[1].payload.quiz.title = "T"
         /\ outbox[1].payload.quiz.currentQuestion = 0
    /\ scenario = 4 =>
         /\ Len(outbox) = 1
         /\ C10_UpdateIs(outbox[1], <<"u2">>)
         /\ "R1" \in DOMAIN quizSessions
    /\ scenario = 5 =>
         /\ ~MapHas(roomParticipants, "R1")
         /\ "R1" \notin DOMAIN quizSessions
         /\ \A i \in 1..Len(outbox) : outbox[i].to # "R1"

(* C15: a valid start for room R leaves R's session with currentQuestion 0, *)
(* startedAt read from the server clock and every other field as the       *)
(* caller's payload has it, whatever session R had before and whatever the *)
(* payload says about currentQuestion or startedAt; the quiz-started       *)
(* broadcast to R carries exactly the stored session.                      *)
HandlerFields == {"startedAt", "currentQuestion"}
C15_StartStep(s, data) ==
    LET r == data.roomId
        payload == IF data.quizData = UndefinedObject THEN EmptyObject ELSE data.quizData
    IN  /\ r \in DOMAIN quizSessions'
        /\ quizSessions'[r].currentQuestion = 0
        /\ quizSessions'[r].startedAt = now
        /\ DOMAIN quizSessions'[r] = DOMAIN payload \cup HandlerFields
        /\ \A f \in DOMAIN payload \ HandlerFields : quizSessions'[r][f] = payload[f]
        /\ outbox' = <<[to |-> r, event |-> "quiz-started",
                        payload |-> [roomId |-> r, quiz |-> quizSessions'[r]],
                        rcpt |-> RoomMembers(socketRooms, r)]>>
C15_StartResets ==
    [][\A s \in Sockets :
         lastEvent' = [op |-> "start-quiz", socket |-> s] =>
            \A data \in {d \in StartData : ~Falsy(d.roomId)} :
               StartQuizOn(s, data) => C15_StartStep(s, data)]_vars
(* A quiz has just been started, after the clock has moved, in a room with members. *)
C15_Witness ==
    /\ lastEvent.op = "start-quiz"
    /\ Len(outbox) = 1
    /\ outbox[1].event = "quiz-started"
    /\ outbox[1].rcpt # {}
    /\ outbox[1].payload.quiz.title = "T"
    /\ outbox[1].payload.quiz.startedAt = now
    /\ now > 0

(* C16: a nextQuestion for room R with index i sets currentQuestion of R's *)
(* session to i and leaves its other fields, startedAt among them, as they *)
(* were; without a session for R the session store is unchanged; either    *)
(* way exactly one question-changed {roomId, questionIndex = i} goes to R  *)
(* and no error is emitted.                                                *)
C16_NextStep(s, data) ==
    LET r == data.roomId
        i == data.questionIndex
    IN  /\ IF r \in DOMAIN quizSessions
           THEN /\ DOMAIN quizSessions' = DOMAIN quizSessions
                /\ quizSessions'[r].currentQuestion = i
                /\ DOMAIN quizSessions'[r] = DOMAIN quizSessions[r]
                /\ \A f \in DOMAIN quizSessions[r] \ {"currentQuestion"} :
                      quizSessions'[r][f] = quizSessions[r][f]
           ELSE quizSessions' = quizSessions
        /\ outbox' = <<[to |-> r, event |-> "question-changed",
                        payload |-> [roomId |-> r, questionIndex |-> i],
                        rcpt |-> RoomMembers(socketRooms, r)]>>
C16_NextQuestionStep ==
    [][\A s \in Sockets :
         lastEvent' = [op |-> "next-question", socket |-> s] =>
            \A data \in NextData :
               NextQuestionOn(s, data) => C16_NextStep(s, data)]_vars
(* A session started at an earlier time has just been moved to a later question. *)
C16_Witness ==
    /\ lastEvent.op = "next-question"
    /\ Len(outbox) = 1
    /\ outbox[1].event = "question-changed"
    /\ outbox[1].rcpt # {}
    /\ outbox[1].payload.questionIndex >= 1
    /\ outbox[1].to \in DOMAIN quizSessions
    /\ quizSessions[outbox[1].to].currentQuestion = outbox[1].payload.questionIndex
    /\ quizSessions[outbox[1].to].startedAt < now

(* C12: a disconnect of socket c emits a participants-update, with the     *)
(* list without c and its length as count, for exactly the rooms that held *)
(* c and still have participants; for a room that c's removal emptied no   *)
(* participants-update is emitted.                                         *)
C12_DisconnectStep(s) ==
    LET kept == {r \in RoomsOf(roomParticipants, s) :
                    Len(ParticipantIds(roomParticipants, r)) > 1}
    IN  /\ {outbox'[i].to : i \in 1..Len(outbox')} = kept
        /\ Len(outbox') = Cardinality(kept)
        /\ \A i \in 1..Len(outbox') :
             /\ outbox'[i].event = "participants-update"
             /\ SocketIdsOf(outbox'[i].payload.participants)
                  = Without(ParticipantIds(roomParticipants, outbox'[i].to), s)
             /\ outbox'[i].payload.count = Len(outbox'[i].payload.participants)
C12_DisconnectTargets ==
    [][\A s \in Sockets : Disconnect(s) => C12_DisconnectStep(s)]_vars

(* C13: after a disconnect of socket c, c is in no room's participant map, *)
(* also when it was in several; every room it leaves empty is deleted from *)
(* the registry together with its session; a room that still has           *)
(* participants keeps them, in order, and a room that did not hold c is    *)
(* unchanged.                                                              *)
C13_DisconnectStep(s) ==
    \A r \in Rooms :
       LET before == IF MapHas(roomParticipants, r)
                     THEN MapValues(MapGet(roomParticipants, r)) ELSE << >>
           after == IF MapHas(roomParticipants', r)
                    THEN MapValues(MapGet(roomParticipants', r)) ELSE << >>
       IN  /\ s \notin Range(SocketIdsOf(after))
           /\ after = SelectSeq(before, LAMBDA p : p.socketId # s)
           /\ MapHas(roomParticipants', r) <=> after # << >>
           /\ (before # << >> /\ after = << >>) => r \notin DOMAIN quizSessions'
C13_DisconnectCleansAll ==
    [][\A s \in Sockets : Disconnect(s) => C13_DisconnectStep(s)]_vars
(* A socket listed in two rooms has disconnected: one room emptied, one kept. *)
C13_Witness ==
    /\ lastEvent.op = "disconnect"
    /\ Len(outbox) >= 2
    /\ \E i, j \in 1..Len(outbox) :
         /\ outbox[i].payload.count = 0
         /\ outbox[j].payload.count >= 1
         /\ ~MapHas(roomParticipants, outbox[i].to)
         /\ MapHas(roomParticipants, outbox[j].to)

(* C14: a valid join to room R emits a participants-update that reaches    *)
(* every socket in R, the sender included, with R's participant list after *)
(* the insertion and its length as count, and then a room-joined with the  *)
(* same list and count that reaches the sender only.                       *)
C14_JoinStep(s, data) ==
    LET r == data.roomId
        old == ParticipantIds(roomParticipants, r)
        list == MapValues(MapGet(roomParticipants', r))
    IN  /\ SocketIdsOf(list) = IF s \in Range(old) THEN old ELSE Append(old, s)
        /\ \E i \in 1..Len(list) : list[i].socketId = s /\ list[i].userId = data.userId
        /\ outbox' = <<[to |-> r, event |-> "participants-update",
                        payload |-> [participants |-> list, count |-> Len(list)],
                        rcpt |-> RoomMembers(socketRooms, r) \cup {s}],
                       [to |-> s, event |-> "room-joined",
                        payload |-> [roomId |-> r, participantCount |-> Len(list),
                                     participants |-> list],
                        rcpt |-> {s}]>>
C14_JoinBroadcast ==
    [][\A s \in Sockets :
         lastEvent' = [op |-> "join-room", socket |-> s] =>
            \A data \in ValidJoins(s) : JoinRoomOn(s, data) => C14_JoinStep(s, data)]_vars
(* A second socket has just joined a room: both receive the update, it alone room-joined. *)
C14_Witness ==
    /\ lastEvent.op = "join-room"
    /\ Len(outbox) = 2
    /\ outbox[1].event = "participants-update"
    /\ outbox[1].payload.count = 2
    /\ Cardinality(outbox[1].rcpt) = 2
    /\ outbox[2].event = "room-joined"
    /\ outbox[2].rcpt = {lastEvent.socket}

(* C17: a submitAnswer changes neither the registry nor the session store; *)
(* its answer-received reaches the sockets of the named room other than    *)
(* the sender, and never the sender.                                       *)
C17_SubmitStep(s, data) ==
    /\ roomParticipants' = roomParticipants
    /\ quizSessions' = quizSessions
    /\ Len(outbox') = 1
    /\ outbox'[1].event = "answer-received"
    /\ outbox'[1].to = data.roomId
    /\ outbox'[1].rcpt = RoomMembers(socketRooms', data.roomId) \ {s}
    /\ s \notin outbox'[1].rcpt
C17_SubmitAnswerRelay ==
    [][\A s \in Sockets :
         lastEvent' = [op |-> "submit-answer", socket |-> s] =>
            \A data \in AnswerData(s) :
               SubmitAnswerOn(s, data) => C17_SubmitStep(s, data)]_vars
(* A member of a room with another member and a session has just submitted an answer. *)
C17_Witness ==
    /\ lastEvent.op = "submit-answer"
    /\ Len(outbox) = 1
    /\ outbox[1].event = "answer-received"
    /\ outbox[1].to \in socketRooms[lastEvent.socket]
    /\ outbox[1].rcpt # {}
    /\ DOMAIN quizSessions # {}

(* C18: for every room, the sockets that receive a broadcast addressed to  *)
(* it are exactly the sockets in its participant map.                      *)
C18_TransportAgreesWithRegistry ==
    \A r \in Rooms :
       RoomMembers(socketRooms, r) = Range(ParticipantIds(roomParticipants, r))

(* C19: once every socket that ever connected has disconnected, the        *)
(* registry and the session store are both empty.                          *)
C19_NoLeak ==
    ( /\ \A s \in Sockets : sockets[s] # "open"
      /\ \E s \in Sockets : sockets[s] = "closed" )
    => /\ roomParticipants = EmptyMap
       /\ DOMAIN quizSessions = {}

(* C20: start, submitAnswer, nextQuestion and end leave the registry as it *)
(* is, and a start, nextQuestion or end naming room R leaves the session   *)
(* of every other room as it is.                                           *)
C20_Frame(r) ==
    /\ roomParticipants' = roomParticipants
    /\ DOMAIN quizSessions' \ {r} = DOMAIN quizSessions \ {r}
    /\ \A q \in DOMAIN quizSessions \ {r} : quizSessions'[q] = quizSessions[q]
C20_SessionEventsFrame ==
    [][\A s \in Sockets :
         /\ lastEvent' = [op |-> "start-quiz", socket |-> s] =>
              /\ \A data \in StartData : StartQuizOn(s, data) => C20_Frame(data.roomId)
              /\ StartQuizOn(s, NoData) => C20_Frame(Undefined)
         /\ lastEvent' = [op |-> "next-question", socket |-> s] =>
              /\ \A data \in NextData : NextQuestionOn(s, data) => C20_Frame(data.roomId)
              /\ NextQuestionOn(s, NoData) => C20_Frame(Undefined)
         /\ lastEvent' = [op |-> "end-quiz", socket |-> s] =>
              /\ \A data \in EndData : EndQuizOn(s, data) => C20_Frame(data.roomId)
              /\ EndQuizOn(s, NoData) => C20_Frame(Undefined)
         /\ lastEvent' = [op |-> "submit-answer", socket |-> s] =>
              \A data \in AnswerData(s) \cup {NoData} :
                 SubmitAnswerOn(s, data) => roomParticipants' = roomParticipants]_vars
(* A quiz has just been ended in one room while another room keeps its session. *)
C20_Witness ==
    /\ lastEvent.op = "end-quiz"
    /\ Len(outbox) = 1
    /\ outbox[1].event = "quiz-ended"
    /\ outbox[1].to \notin DOMAIN quizSessions
    /\ DOMAIN quizSessions # {}
    /\ roomParticipants # EmptyMap

(* C11: events of different sockets that arrive interleaved are handled    *)
(* one handler at a time: whenever no handler is in progress, the registry *)
(* and the session store are what running the dispatched events one at a   *)
(* time, in arrival order, gives (no update is lost), and every            *)
(* participants-update carries the room's participant list as it is at the *)
(* moment the update is emitted.                                           *)
Quiescent == \A s \in Sockets : running[s] = Idle
C11_SerialState ==
    Quiescent => /\ roomParticipants = serial.rp
                 /\ quizSessions = serial.qs
C11_FreshLists ==
    \A i \in (Len(outbox) + 1)..Len(outbox') :
       outbox'[i].event = "participants-update" =>
          outbox'[i].payload.participants =
             IF MapHas(roomParticipants', outbox'[i].to)
             THEN MapValues(MapGet(roomParticipants', outbox'[i].to))
             ELSE << >>
C11_Linearized == []C11_SerialState /\ [][C11_FreshLists]_vars
(* Two sockets have joined the same room one after the other and a quiz    *)
(* was started there; the second join's handler has run to its end.         *)
C11_Witness ==
    /\ Quiescent
    /\ \E r \in Rooms :
         /\ Len(ParticipantIds(roomParticipants, r)) = 2
         /\ r \in DOMAIN quizSessions
    /\ Len(outbox) = 2
    /\ outbox[1].event = "participants-update"
    /\ outbox[1].payload.count = 2
====
